---- MODULE Spec2Model ----
(***************************************************************************)
(* Model of the world graph engine of wander-engine: the entity store      *)
(* (src/world/entities.rs), the spatial graph with its derived path and    *)
(* distance caches (src/world/layout.rs) and the agent registry            *)
(* (src/world/agents.rs).                                                  *)
(*                                                                         *)
(* The three VARIABLES entities, layout and agents are the three fields of *)
(* struct World.  Every method of World is an operator from a world record *)
(* to an outcome record [w, ok, val]: w is the world after the call, ok is *)
(* FALSE when the call panicked (assert!, expect, unwrap), val is the      *)
(* returned value.  An action applies one public call to the current world.*)
(* fault says that the process has panicked; call is the last call, with   *)
(* its arguments and its returned value, and before is the world that call *)
(* was made on (two history variables the claims are stated with).         *)
(*                                                                         *)
(* Hash maps are functions, hash sets are sets.  Iteration over a hash map *)
(* or set is modelled in ascending Entity order.  Option<T> is <<>> for    *)
(* None and <<x>> for Some(x).  Result<T, InvalidEntity> is                *)
(* [err |-> TRUE] or [err |-> FALSE, v |-> x].                             *)
(***************************************************************************)
EXTENDS Integers, Sequences, FiniteSets, TLC

VARIABLES entities, layout, agents, fault, call, before

vars == <<entities, layout, agents, fault, call, before>>

(***************************************************************************)
(* Bounds of the model.                                                    *)
(***************************************************************************)
\* Largest value of the entity counter: stands for u32::MAX of Entity(u32).
U32_MAX == 9
\* Caps of the specification SpecLayout on what the actions create.
MaxSpaces == 3
MaxAreas == 4
\* Caps of the specification SpecWorld.
WorldSpaces == 2
WorldAreas == 2
WorldNested == 1
WorldAgents == 1
WorldDespawned == 1
\* Caps of the specification SpecStore: entities allocated, entries stored.
StoreEntities == 2
StoreFacts == 2

Entity == 0..U32_MAX
\* Values used as kinds, attribute keys, attribute values, tags and positions.
Values == {"a", "b"}
Kinds == {"a"}

None == <<>>
Some(x) == <<x>>

(***************************************************************************)
(* Small helpers on sets, sequences and functions.                         *)
(***************************************************************************)
Min(S) == CHOOSE x \in S : \A y \in S : x <= y

\* The entities of S in ascending order: the order in which the model
\* iterates over a hash set or the keys of a hash map.
EntitySeq == [i \in 1..(U32_MAX + 1) |-> i - 1]
SortedSeq(S) == LET Member(e) == e \in S IN SelectSeq(EntitySeq, Member)

Range(s) == {s[i] : i \in 1..Len(s)}

Last(s) == s[Len(s)]

\* Vec::sort on a sequence of entities (insertion into a sorted prefix).
RECURSIVE VecSort(_)
VecSort(s) ==
    IF s = <<>> THEN <<>>
    ELSE LET rest == VecSort(Tail(s))
             LessEq(x) == x <= Head(s)
             Greater(x) == x > Head(s)
         IN SelectSeq(rest, LessEq) \o <<Head(s)>> \o SelectSeq(rest, Greater)

\* Vec::dedup: removes consecutive repeated elements.
RECURSIVE VecDedup(_)
VecDedup(s) ==
    IF Len(s) < 2 THEN s
    ELSE IF s[1] = s[2] THEN VecDedup(Tail(s)) ELSE <<s[1]>> \o VecDedup(Tail(s))

MapInsert(m, k, v) == [x \in DOMAIN m \cup {k} |-> IF x = k THEN v ELSE m[x]]
MapRemove(m, k) == [x \in DOMAIN m \ {k} |-> m[x]]
MapGet(m, k) == IF k \in DOMAIN m THEN Some(m[k]) ELSE None
EmptyMap == [x \in {} |-> 0]

(***************************************************************************)
(* struct World and its three parts.                                       *)
(***************************************************************************)
World == [entities |-> entities, layout |-> layout, agents |-> agents]

WorldEntitiesDefault == [next_entity_id |-> 0, meta |-> EmptyMap]

WorldLayoutDefault ==
    [spaces |-> {}, object_parents |-> EmptyMap, kinds |-> EmptyMap,
     portals |-> {}, portal_objects |-> EmptyMap,
     paths |-> EmptyMap, space_distances |-> EmptyMap]

WorldAgentsDefault == [agent_locations |-> EmptyMap, agent_position |-> EmptyMap]

EmptyMeta ==
    [identifier |-> None, global_attributes |-> EmptyMap, global_tags |-> {},
     agent_attributes |-> EmptyMap, agent_tags |-> EmptyMap]

\* let v = x; F(v): x is evaluated once and F is applied to its value.
With(x, F(_)) == CHOOSE r \in {F(v) : v \in {x}} : TRUE

Ok(w, v) == [w |-> w, ok |-> TRUE, val |-> v]
Panic(w) == [w |-> w, ok |-> FALSE, val |-> None]

(***************************************************************************)
(* entities.rs: allocation and removal.                                    *)
(***************************************************************************)
\* idx.checked_add(1).expect(..): panics, before any assignment, when idx is
\* the largest value of the counter.
\* spawn with a wrapping increment of the counter.
spawn_wrapping(w) ==
    LET idx == w.entities.next_entity_id IN
    Ok([w EXCEPT !.entities.next_entity_id = (idx + 1) % (U32_MAX + 1),
                 !.entities.meta = MapInsert(@, idx, EmptyMeta)], idx)

\* spawn handing out the lowest entity without a meta record.
spawn_lowest_free(w) ==
    LET free == {e \in Entity : e \notin DOMAIN w.entities.meta /\ e < U32_MAX} IN
    IF free = {} THEN Panic(w)
    ELSE LET idx == Min(free)
             next == IF idx + 1 > w.entities.next_entity_id
                     THEN idx + 1 ELSE w.entities.next_entity_id
         IN Ok([w EXCEPT !.entities.next_entity_id = next,
                         !.entities.meta = MapInsert(@, idx, EmptyMeta)], idx)

spawn(w) ==
    LET idx == w.entities.next_entity_id IN
    IF idx = U32_MAX THEN Panic(w)
    ELSE Ok([w EXCEPT !.entities.next_entity_id = idx + 1,
                      !.entities.meta = MapInsert(@, idx, EmptyMeta)], idx)

\* despawn removing the meta record only, without scrubbing the observer key.
despawn_own_record(w, entity) ==
    Ok([w EXCEPT !.entities.meta = MapRemove(@, entity)], None)

\* despawn taking the record of the entity for granted.
despawn_expect(w, entity) ==
    IF entity \in DOMAIN w.entities.meta
    THEN despawn_own_record(w, entity)
    ELSE Panic(w)

\* despawn that also takes the entity out of the set of spaces.
despawn_space(w, entity) ==
    Ok([w EXCEPT !.entities.meta =
            [x \in DOMAIN @ \ {entity} |->
                [@[x] EXCEPT !.agent_attributes = MapRemove(@, entity)]],
                 !.layout.spaces = @ \ {entity}], None)

\* despawn that also retracts the entity from the agent registry.
despawn_agent(w, entity) ==
    Ok([w EXCEPT !.entities.meta =
            [x \in DOMAIN @ \ {entity} |->
                [@[x] EXCEPT !.agent_attributes = MapRemove(@, entity)]],
                 !.agents.agent_locations = MapRemove(@, entity),
                 !.agents.agent_position = MapRemove(@, entity)], None)

despawn(w, entity) ==
    LET removed == MapRemove(w.entities.meta, entity) IN
    Ok([w EXCEPT !.entities.meta =
            [x \in DOMAIN removed |->
                [removed[x] EXCEPT !.agent_attributes = MapRemove(@, entity)]]],
       None)

contains(w, entity) == entity \in DOMAIN w.entities.meta

(***************************************************************************)
(* entities.rs: identifiers, attributes and tags.  The value of an         *)
(* EntityResult is Err or OkR(x); an iterator is the collection it walks.  *)
(***************************************************************************)
Unit == <<>>
Err == [err |-> TRUE]
OkR(x) == [err |-> FALSE, v |-> x]

\* meta / meta_mut: get(&entity).ok_or(InvalidEntity)
meta(w, entity) ==
    IF entity \in DOMAIN w.entities.meta THEN OkR(w.entities.meta[entity]) ELSE Err

\* The world with the meta record of entity replaced.
put_meta(w, entity, m) == [w EXCEPT !.entities.meta[entity] = m]

\* meta_mut(entity).expect("valid entity").identifier = Some(identifier)
set_identifier(w, entity, identifier) ==
    IF meta(w, entity).err THEN Panic(w)
    ELSE Ok(put_meta(w, entity,
                [meta(w, entity).v EXCEPT !.identifier = Some(identifier)]), Unit)

\* meta(entity).ok().and_then(|meta| meta.identifier.as_ref())
identifier(w, entity) ==
    IF meta(w, entity).err THEN Ok(w, None) ELSE Ok(w, meta(w, entity).v.identifier)

set_global_attribute_value(w, entity, attr, value) ==
    IF meta(w, entity).err THEN Ok(w, Err)
    ELSE Ok(put_meta(w, entity,
                [meta(w, entity).v EXCEPT
                    !.global_attributes = MapInsert(@, attr, value)]), OkR(Unit))

clear_global_attribute_value(w, entity, attr) ==
    IF meta(w, entity).err THEN Ok(w, Err)
    ELSE Ok(put_meta(w, entity,
                [meta(w, entity).v EXCEPT !.global_attributes = MapRemove(@, attr)]),
            OkR(MapGet(meta(w, entity).v.global_attributes, attr)))

global_attribute_value(w, entity, attr) ==
    IF meta(w, entity).err THEN Ok(w, Err)
    ELSE Ok(w, OkR(MapGet(meta(w, entity).v.global_attributes, attr)))

global_attributes(w, entity) ==
    IF meta(w, entity).err THEN Ok(w, Err)
    ELSE Ok(w, OkR(meta(w, entity).v.global_attributes))

set_global_tag(w, entity, tag) ==
    IF meta(w, entity).err THEN Ok(w, Err)
    ELSE Ok(put_meta(w, entity,
                [meta(w, entity).v EXCEPT !.global_tags = @ \cup {tag}]), OkR(Unit))

clear_global_tag(w, entity, tag) ==
    IF meta(w, entity).err THEN Ok(w, Err)
    ELSE Ok(put_meta(w, entity,
                [meta(w, entity).v EXCEPT !.global_tags = @ \ {tag}]), OkR(Unit))

global_tags(w, entity) ==
    IF meta(w, entity).err THEN Ok(w, Err)
    ELSE Ok(w, OkR(meta(w, entity).v.global_tags))

contains_global_tag(w, entity, tag) ==
    IF meta(w, entity).err THEN Ok(w, Err)
    ELSE Ok(w, OkR(tag \in meta(w, entity).v.global_tags))

\* agent_attributes.entry(agent).or_default().insert(attr, value)
set_agent_attribute_value(w, agent, entity, attr, value) ==
    IF meta(w, entity).err THEN Ok(w, Err)
    ELSE LET m == meta(w, entity).v
             own == IF agent \in DOMAIN m.agent_attributes
                    THEN m.agent_attributes[agent] ELSE EmptyMap
         IN Ok(put_meta(w, entity,
                  [m EXCEPT !.agent_attributes =
                      MapInsert(@, agent, MapInsert(own, attr, value))]), OkR(Unit))

\* meta_mut(entity).map(|meta| meta.agent_attributes.get_mut(&agent)?.remove(attr))
clear_agent_attribute_value(w, agent, entity, attr) ==
    IF meta(w, entity).err THEN Ok(w, Err)
    ELSE LET m == meta(w, entity).v IN
         IF agent \notin DOMAIN m.agent_attributes THEN Ok(w, OkR(None))
         ELSE Ok(put_meta(w, entity,
                    [m EXCEPT !.agent_attributes[agent] = MapRemove(@, attr)]),
                 OkR(MapGet(m.agent_attributes[agent], attr)))

agent_attribute_value(w, agent, entity, attr) ==
    IF meta(w, entity).err THEN Ok(w, Err)
    ELSE LET m == meta(w, entity).v IN
         IF agent \notin DOMAIN m.agent_attributes THEN Ok(w, OkR(None))
         ELSE Ok(w, OkR(MapGet(m.agent_attributes[agent], attr)))

\* agent_attributes.get(&agent).unwrap_or_empty_iter()
agent_attributes(w, agent, entity) ==
    IF meta(w, entity).err THEN Ok(w, Err)
    ELSE LET m == meta(w, entity).v IN
         Ok(w, OkR(IF agent \in DOMAIN m.agent_attributes
                   THEN m.agent_attributes[agent] ELSE EmptyMap))

\* set_agent_tag inserting a default meta record for a missing target.
set_agent_tag_or_default(w, agent, entity, tag) ==
    LET m == IF meta(w, entity).err THEN EmptyMeta ELSE meta(w, entity).v
        own == IF agent \in DOMAIN m.agent_tags THEN m.agent_tags[agent] ELSE {}
    IN Ok([w EXCEPT !.entities.meta =
              MapInsert(@, entity,
                  [m EXCEPT !.agent_tags = MapInsert(@, agent, own \cup {tag})])],
          OkR(Unit))

\* agent_tags.entry(agent).or_default().insert(tag)
set_agent_tag(w, agent, entity, tag) ==
    IF meta(w, entity).err THEN Ok(w, Err)
    ELSE LET m == meta(w, entity).v
             own == IF agent \in DOMAIN m.agent_tags THEN m.agent_tags[agent] ELSE {}
         IN Ok(put_meta(w, entity,
                  [m EXCEPT !.agent_tags = MapInsert(@, agent, own \cup {tag})]),
               OkR(Unit))

\* clear_agent_tag through agent_tags.entry(agent).or_default().
clear_agent_tag_or_default(w, agent, entity, tag) ==
    IF meta(w, entity).err THEN Ok(w, Err)
    ELSE LET m == meta(w, entity).v
             own == IF agent \in DOMAIN m.agent_tags THEN m.agent_tags[agent] ELSE {}
         IN Ok(put_meta(w, entity,
                  [m EXCEPT !.agent_tags = MapInsert(@, agent, own \ {tag})]),
               OkR(Unit))

\* agent_tags.get_mut(&agent).map(|tags| tags.remove(tag))
clear_agent_tag(w, agent, entity, tag) ==
    IF meta(w, entity).err THEN Ok(w, Err)
    ELSE LET m == meta(w, entity).v IN
         IF agent \notin DOMAIN m.agent_tags THEN Ok(w, OkR(Unit))
         ELSE Ok(put_meta(w, entity, [m EXCEPT !.agent_tags[agent] = @ \ {tag}]),
                 OkR(Unit))

agent_tags(w, agent, entity) ==
    IF meta(w, entity).err THEN Ok(w, Err)
    ELSE LET m == meta(w, entity).v IN
         Ok(w, OkR(IF agent \in DOMAIN m.agent_tags THEN m.agent_tags[agent] ELSE {}))

\* has_agent_tag falling back on the global tags of the entity.
has_agent_tag_or_global(w, agent, entity, tag) ==
    IF meta(w, entity).err THEN Ok(w, Err)
    ELSE LET m == meta(w, entity).v IN
         Ok(w, OkR(IF agent \in DOMAIN m.agent_tags /\ tag \in m.agent_tags[agent]
                   THEN TRUE ELSE tag \in m.global_tags))

has_agent_tag(w, agent, entity, tag) ==
    IF meta(w, entity).err THEN Ok(w, Err)
    ELSE LET m == meta(w, entity).v IN
         Ok(w, OkR(IF agent \in DOMAIN m.agent_tags
                   THEN tag \in m.agent_tags[agent] ELSE FALSE))


(***************************************************************************)
(* layout.rs: queries.                                                     *)
(***************************************************************************)
Pair(a, b) == {a, b}

layout_kind(w, entity) == MapGet(w.layout.kinds, entity)
is_space(w, entity) == entity \in w.layout.spaces
spaces(w) == SortedSeq(w.layout.spaces)
is_object(w, entity) == entity \in DOMAIN w.layout.object_parents
object_parent(w, object) == MapGet(w.layout.object_parents, object)

is_area(w, entity) ==
    /\ is_object(w, entity)
    /\ LET p == object_parent(w, entity) IN
       IF p = None THEN FALSE ELSE is_space(w, p[1])

\* child_objects without the test on the parent: every object is a child.
child_objects_all(w, parent) == SortedSeq(DOMAIN w.layout.object_parents)

child_objects(w, parent) ==
    LET IsChild(object) == w.layout.object_parents[object] = parent IN
    SelectSeq(SortedSeq(DOMAIN w.layout.object_parents), IsChild)

\* spaces().flat_map(|space| child_objects(space))
RECURSIVE areas_from(_, _)
areas_from(w, ss) ==
    IF ss = <<>> THEN <<>>
    ELSE child_objects(w, Head(ss)) \o areas_from(w, Tail(ss))

areas(w) == areas_from(w, spaces(w))

\* object_space that stops at an entity without meta record.
RECURSIVE object_space_live(_, _)
object_space_live(w, object) ==
    IF ~contains(w, object) THEN None
    ELSE IF is_space(w, object) THEN Some(object)
    ELSE LET p == object_parent(w, object) IN
         IF p = None THEN None ELSE object_space_live(w, p[1])

\* while !is_space(entity) { entity = object_parent(entity)? }
RECURSIVE object_space(_, _)
object_space(w, object) ==
    IF is_space(w, object) THEN Some(object)
    ELSE LET p == object_parent(w, object) IN
         IF p = None THEN None ELSE object_space(w, p[1])

RECURSIVE object_area(_, _)
object_area(w, object) ==
    IF is_area(w, object) THEN Some(object)
    ELSE LET p == object_parent(w, object) IN
         IF p = None THEN None ELSE object_area(w, p[1])

is_portal(w, entity) == entity \in w.layout.portals
is_portal_object(w, entity) == entity \in DOMAIN w.layout.portal_objects

object_portal(w, object) ==
    IF object \in DOMAIN w.layout.portal_objects
    THEN Some(w.layout.portal_objects[object].portal) ELSE None

object_portal_target(w, object) ==
    IF object \in DOMAIN w.layout.portal_objects
    THEN Some(w.layout.portal_objects[object].target_object) ELSE None

(***************************************************************************)
(* layout.rs: the path and distance caches.                                *)
(***************************************************************************)
\* Concatenation of the sequences ss[lo..hi], in order.
RECURSIVE Flatten(_, _, _)
Flatten(ss, lo, hi) ==
    IF lo > hi THEN <<>>
    ELSE IF lo = hi THEN ss[lo]
    ELSE LET mid == (lo + hi) \div 2 IN
         Flatten(ss, lo, mid) \o Flatten(ss, mid + 1, hi)

\* try_extend(target) alone, without the loop over the local areas.
try_extend_target_only(w, path) ==
    LET target == object_portal_target(w, Last(path))
        candidates == IF target # None THEN <<target[1]>> ELSE <<>>
        NotInPath(area) == \A i \in 1..Len(path) : path[i] # area
        fresh == SelectSeq(candidates, NotInPath)
    IN [i \in 1..Len(fresh) |-> Append(path, fresh[i])]

\* try_extend that offers each successor once: the portal target is left out
\* of the loop over the local areas.
try_extend_once(w, path) ==
    LET last == Last(path)
        target == object_portal_target(w, last)
        space == object_space(w, last)
        NotTarget(area) == target = None \/ area # target[1]
        candidates == (IF target # None THEN <<target[1]>> ELSE <<>>)
                      \o SelectSeq(child_objects(w, space[1]), NotTarget)
        NotInPath(area) == \A i \in 1..Len(path) : path[i] # area
        fresh == SelectSeq(candidates, NotInPath)
    IN [i \in 1..Len(fresh) |-> Append(path, fresh[i])]

\* What one pop of find_paths pushes back: try_extend(target) for the portal
\* target of the last area, then try_extend(local) for every child of the last
\* area's space; each test is against the popped path itself.
try_extend(w, path) ==
    LET last == Last(path)
        target == object_portal_target(w, last)
        space == object_space(w, last)
        candidates == (IF target # None THEN <<target[1]>> ELSE <<>>)
                      \o child_objects(w, space[1])
        NotInPath(area) == \A i \in 1..Len(path) : path[i] # area
        fresh == SelectSeq(candidates, NotInPath)
    IN [i \in 1..Len(fresh) |-> Append(path, fresh[i])]

\* The worklist of find_paths is a FIFO queue: it pops every path of length k,
\* in order, before any path of length k + 1, and the paths of length k + 1
\* enter it in the order their prefixes are popped.  The loop is therefore
\* run one length at a time: level is the part of the queue holding the
\* paths of the current length.  The result is [ok, paths]; ok is FALSE when
\* object_space(last).unwrap() meets None.
RECURSIVE find_paths_loop(_, _, _)
find_paths_loop(w, level0, paths0) ==
    With(<<level0, paths0>>, LAMBDA q :
        LET level == q[1]
            paths == q[2]
        IN IF level = <<>> THEN [ok |-> TRUE, paths |-> paths]
           ELSE IF \E i \in 1..Len(level) : object_space(w, Last(level[i])) = None
           THEN [ok |-> FALSE, paths |-> paths]
           ELSE LET pushed == [i \in 1..Len(level) |-> try_extend(w, level[i])]
                    recorded == IF Len(level[1]) > 1 THEN level ELSE <<>>
                IN find_paths_loop(w, Flatten(pushed, 1, Len(level)), paths \o recorded))

find_paths(w0) ==
    With(w0, LAMBDA w :
        LET first == areas(w) IN
        find_paths_loop(w, [i \in 1..Len(first) |-> <<first[i]>>], <<>>))

\* path.iter().rev().fold(List([]), |prev, area| List([Ext(area), prev]))
RECURSIVE path_value(_)
path_value(path) ==
    IF path = <<>> THEN <<>>
    ELSE <<[ext |-> Head(path)], path_value(Tail(path))>>

\* paths_of keeping the first path of a key only (or_insert instead of push).
paths_of_first(ps) ==
    LET keys == {<<ps[i][1], Last(ps[i])>> : i \in 1..Len(ps)} IN
    [key \in keys |->
        LET Ends(path) == <<path[1], Last(path)>> = key
            mine == SelectSeq(ps, Ends)
        IN <<path_value(mine[1])>>]

\* for path in find_paths() { paths.entry((first, last)).or_default().push(..) }:
\* the entry of a key holds the values of the paths with these ends, in the
\* order find_paths lists them.
paths_of(ps) ==
    LET keys == {<<ps[i][1], Last(ps[i])>> : i \in 1..Len(ps)} IN
    [key \in keys |->
        LET Ends(path) == <<path[1], Last(path)>> = key
            mine == SelectSeq(ps, Ends)
        IN [i \in 1..Len(mine) |-> path_value(mine[i])]]

recalculate_paths(w) ==
    With([w EXCEPT !.layout.paths = EmptyMap], LAMBDA cleared :
        With(find_paths(cleared), LAMBDA found :
            IF ~found.ok THEN Panic(cleared)
            ELSE Ok([cleared EXCEPT !.layout.paths = paths_of(found.paths)], None)))

\* path_distance counting the areas of the path instead of its distinct spaces.
path_distance_areas(w, path) ==
    With(<<>> \o [i \in 1..Len(path) |-> object_space(w, path[i])[1]], LAMBDA visited :
        [key |-> Pair(visited[1], Last(visited)), n |-> Len(visited)])

\* One iteration of the loop of recalculate_space_distances: the key and the
\* candidate distance of a path ([key, n]): the owning spaces of its areas,
\* sorted and deduplicated, are counted.
path_distance(w, path) ==
    With(<<>> \o [i \in 1..Len(path) |-> object_space(w, path[i])[1]], LAMBDA visited :
        [key |-> Pair(visited[1], Last(visited)),
         n |-> Len(VecDedup(VecSort(visited)))])

\* distances_of skipping the paths with two distinct spaces as well (<= 2).
distances_of_skip2(w, ps) ==
    With({path_distance(w, ps[i]) : i \in 1..Len(ps)}, LAMBDA candidates :
        With({c \in candidates : ~(c.n <= 2)}, LAMBDA kept :
            [key \in {c.key : c \in kept} |->
                Min({c.n : c \in {d \in kept : d.key = key}})]))

\* The loop of recalculate_space_distances: a path with fewer than two distinct
\* spaces is skipped, the others leave under their key the least candidate
\* (or_insert, then and_modify with min).
distances_of(w, ps) ==
    With({path_distance(w, ps[i]) : i \in 1..Len(ps)}, LAMBDA candidates :
        With({c \in candidates : ~(c.n < 2)}, LAMBDA kept :
            [key \in {c.key : c \in kept} |->
                Min({c.n : c \in {d \in kept : d.key = key}})]))

recalculate_space_distances(w) ==
    With([w EXCEPT !.layout.space_distances = EmptyMap], LAMBDA cleared :
        With(find_paths(cleared), LAMBDA found :
            IF ~found.ok THEN Panic(cleared)
            ELSE LET Broken(i) == \E j \in 1..Len(found.paths[i]) :
                                      object_space(cleared, found.paths[i][j]) = None
                     bad == {i \in 1..Len(found.paths) : Broken(i)}
                 IN IF bad # {}
                    THEN \* unwrap() panics in the loop: the entries of the paths
                         \* before the first broken one are in the map.
                         Panic([cleared EXCEPT !.layout.space_distances =
                             distances_of(cleared, SubSeq(found.paths, 1, Min(bad) - 1))])
                    ELSE Ok([cleared EXCEPT !.layout.space_distances =
                                distances_of(cleared, found.paths)], None)))

recalculate(w) ==
    With(recalculate_paths(w), LAMBDA p :
        IF ~p.ok THEN p ELSE recalculate_space_distances(p.w))

(***************************************************************************)
(* layout.rs: constructors.                                                *)
(***************************************************************************)
create_space(w, kind) ==
    With(spawn(w), LAMBDA s :
        IF ~s.ok THEN Panic(s.w)
        ELSE With(recalculate([s.w EXCEPT !.layout.spaces = @ \cup {s.val},
                                          !.layout.kinds = MapInsert(@, s.val, kind)]),
                  LAMBDA r : IF ~r.ok THEN Panic(r.w) ELSE Ok(r.w, s.val)))

create_object(w, kind, parent) ==
    IF ~(is_space(w, parent) \/ is_object(w, parent)) THEN Panic(w)
    ELSE With(spawn(w), LAMBDA s :
        IF ~s.ok THEN Panic(s.w)
        ELSE With(recalculate(
                    [s.w EXCEPT !.layout.object_parents = MapInsert(@, s.val, parent),
                                !.layout.kinds = MapInsert(@, s.val, kind)]),
                  LAMBDA r : IF ~r.ok THEN Panic(r.w) ELSE Ok(r.w, s.val)))

\* create_portal registering the target of the first portal object only.
register_portal_one_way(w, portal, oa, ob) ==
    [w EXCEPT !.layout.portal_objects =
        MapInsert(@, oa, [portal |-> portal, target_object |-> ob])]

\* portal_objects.insert(oa, ..); portal_objects.insert(ob, ..)
register_portal(w, portal, oa, ob) ==
    [w EXCEPT !.layout.portal_objects =
        MapInsert(MapInsert(@, oa, [portal |-> portal, target_object |-> ob]),
                  ob, [portal |-> portal, target_object |-> oa])]

\* create_portal without its closing recalculate().
create_portal_stale(w, kind, sa, sb) ==
    IF ~is_space(w, sa) \/ ~is_space(w, sb) THEN Panic(w)
    ELSE With(spawn(w), LAMBDA s :
        IF ~s.ok THEN Panic(s.w)
        ELSE With(create_object(
                    [s.w EXCEPT !.layout.portals = @ \cup {s.val},
                                !.layout.kinds = MapInsert(@, s.val, kind)], kind, sa),
                  LAMBDA a :
            IF ~a.ok THEN Panic(a.w)
            ELSE With(create_object(a.w, kind, sb), LAMBDA b :
                IF ~b.ok THEN Panic(b.w)
                ELSE Ok(register_portal(b.w, s.val, a.val, b.val), s.val))))

create_portal(w, kind, sa, sb) ==
    IF ~is_space(w, sa) \/ ~is_space(w, sb) THEN Panic(w)
    ELSE With(spawn(w), LAMBDA s :
        IF ~s.ok THEN Panic(s.w)
        ELSE With(create_object(
                    [s.w EXCEPT !.layout.portals = @ \cup {s.val},
                                !.layout.kinds = MapInsert(@, s.val, kind)], kind, sa),
                  LAMBDA a :
            IF ~a.ok THEN Panic(a.w)
            ELSE With(create_object(a.w, kind, sb), LAMBDA b :
                IF ~b.ok THEN Panic(b.w)
                ELSE With(recalculate(register_portal(b.w, s.val, a.val, b.val)),
                          LAMBDA r : IF ~r.ok THEN Panic(r.w) ELSE Ok(r.w, s.val)))))

\* spaces_by_distance without the sort: the spaces in iteration order.
sort_by_key_unsorted(s) == s

\* filter_map over spaces(), then a stable sort by distance.
RECURSIVE sort_by_key(_)
sort_by_key(s) ==
    IF s = <<>> THEN <<>>
    ELSE LET rest == sort_by_key(Tail(s))
             Before(x) == x[2] < Head(s)[2]
             NotBefore(x) == x[2] >= Head(s)[2]
         IN SelectSeq(rest, Before) \o <<Head(s)>> \o SelectSeq(rest, NotBefore)

spaces_by_distance(w, source) ==
    LET HasDistance(space) == Pair(source, space) \in DOMAIN w.layout.space_distances
        found == SelectSeq(spaces(w), HasDistance)
        keyed == [i \in 1..Len(found) |->
                    <<found[i], w.layout.space_distances[Pair(source, found[i])]>>]
        sorted == sort_by_key(keyed)
    IN [i \in 1..Len(sorted) |-> sorted[i][1]]

(***************************************************************************)
(* agents.rs.                                                              *)
(***************************************************************************)
is_agent(w, entity) == entity \in DOMAIN w.agents.agent_locations
agent_location(w, entity) == MapGet(w.agents.agent_locations, entity)
agent_position(w, agent) == MapGet(w.agents.agent_position, agent)

create_agent(w, location) ==
    IF ~is_area(w, location) THEN Panic(w)
    ELSE LET s == spawn(w) IN
         IF ~s.ok THEN Panic(s.w)
         ELSE Ok([s.w EXCEPT !.agents.agent_locations = MapInsert(@, s.val, location)],
                 s.val)

\* set_agent_location through agent_locations.insert(agent, location).
set_agent_location_insert(w, agent, location) ==
    Ok([w EXCEPT !.agents.agent_locations = MapInsert(@, agent, location)], None)

\* set_agent_location asserting that the location is an area.
set_agent_location_area(w, agent, location) ==
    IF agent \notin DOMAIN w.agents.agent_locations \/ ~is_area(w, location)
    THEN Panic(w)
    ELSE Ok([w EXCEPT !.agents.agent_locations = MapInsert(@, agent, location)], None)

set_agent_location(w, agent, location) ==
    IF agent \notin DOMAIN w.agents.agent_locations THEN Panic(w)
    ELSE Ok([w EXCEPT !.agents.agent_locations = MapInsert(@, agent, location)], None)

set_agent_position(w, agent, position) ==
    IF ~is_agent(w, agent) THEN Panic(w)
    ELSE Ok([w EXCEPT !.agents.agent_position = MapInsert(@, agent, position)], None)

clear_agent_position(w, agent) ==
    IF ~is_agent(w, agent) THEN Panic(w)
    ELSE Ok([w EXCEPT !.agents.agent_position = MapRemove(@, agent)], None)

(***************************************************************************)
(* The state machine.                                                      *)
(***************************************************************************)
NoCall == [op |-> "new", args |-> <<>>, val |-> None]

Init ==
    /\ entities = WorldEntitiesDefault
    /\ layout = WorldLayoutDefault
    /\ agents = WorldAgentsDefault
    /\ fault = FALSE
    /\ call = NoCall
    /\ before = [entities |-> WorldEntitiesDefault, layout |-> WorldLayoutDefault,
                 agents |-> WorldAgentsDefault]

\* One call of a World method: the world becomes the outcome's world, a panic
\* ends the process.
Apply(op, args, outcome) ==
    /\ fault = FALSE
    /\ \E r \in {outcome} :
        /\ entities' = r.w.entities
        /\ layout' = r.w.layout
        /\ agents' = r.w.agents
        /\ fault' = ~r.ok
        /\ call' = [op |-> op, args |-> args, val |-> r.val]
        /\ before' = World

Areas == {x \in DOMAIN layout.object_parents : layout.object_parents[x] \in layout.spaces}
Nested == DOMAIN layout.object_parents \ Areas
Despawned == {e \in 0..(entities.next_entity_id - 1) : e \notin DOMAIN entities.meta}

\* The actions take the sets their inputs are drawn from and the caps that
\* keep the world finite.
CreateSpace(maxSpaces) ==
    /\ Cardinality(layout.spaces) < maxSpaces
    /\ \E kind \in Kinds : Apply("create_space", <<kind>>, create_space(World, kind))

CreateObject(parents, maxAreas, maxNested) ==
    \E kind \in Kinds, parent \in parents :
        /\ parent \in layout.spaces => Cardinality(Areas) < maxAreas
        /\ parent \in DOMAIN layout.object_parents => Cardinality(Nested) < maxNested
        /\ Apply("create_object", <<kind, parent>>, create_object(World, kind, parent))

CreatePortal(ends, maxAreas) ==
    \E kind \in Kinds, sa \in ends, sb \in ends :
        /\ ({sa, sb} \subseteq layout.spaces) => Cardinality(Areas) + 2 <= maxAreas
        /\ Apply("create_portal", <<kind, sa, sb>>, create_portal(World, kind, sa, sb))

CreateAgent(locations, maxAgents) ==
    /\ Cardinality(DOMAIN agents.agent_locations) < maxAgents
    /\ \E location \in locations :
        Apply("create_agent", <<location>>, create_agent(World, location))

SetAgentLocation(who, locations) ==
    \E agent \in who, location \in locations :
        Apply("set_agent_location", <<agent, location>>,
              set_agent_location(World, agent, location))

SetAgentPosition(who, positions) ==
    \E agent \in who, position \in positions :
        Apply("set_agent_position", <<agent, position>>,
              set_agent_position(World, agent, position))

ClearAgentPosition(who) ==
    \E agent \in who :
        Apply("clear_agent_position", <<agent>>, clear_agent_position(World, agent))

Despawn(whom, maxDespawned) ==
    \E entity \in whom :
        /\ entity \in DOMAIN entities.meta => Cardinality(Despawned) < maxDespawned
        /\ Apply("despawn", <<entity>>, despawn(World, entity))

\* The entries of the entity store: identifiers, attributes, tags and the
\* per-observer namespaces.
Facts ==
    UNION {
        LET m == entities.meta[e] IN
            {<<e, "identifier">> : i \in {1} \cap {Len(m.identifier)}}
            \cup {<<e, "global_attributes", k>> : k \in DOMAIN m.global_attributes}
            \cup {<<e, "global_tags", t>> : t \in m.global_tags}
            \cup {<<e, "agent_attributes", o>> : o \in DOMAIN m.agent_attributes}
            \cup UNION {{<<e, "agent_attributes", o, k>> : k \in DOMAIN m.agent_attributes[o]}
                        : o \in DOMAIN m.agent_attributes}
            \cup {<<e, "agent_tags", o>> : o \in DOMAIN m.agent_tags}
            \cup UNION {{<<e, "agent_tags", o, t>> : t \in m.agent_tags[o]}
                        : o \in DOMAIN m.agent_tags}
        : e \in DOMAIN entities.meta}

\* A storing call is offered while the store has room, or when it stores
\* nothing because its target has no meta record.
Room(entity, maxFacts) ==
    entity \in DOMAIN entities.meta => Cardinality(Facts) < maxFacts

Contains(whom) ==
    \E entity \in whom :
        Apply("contains", <<entity>>, Ok(World, contains(World, entity)))

SetIdentifier(whom, names, maxFacts) ==
    \E entity \in whom, name \in names :
        /\ Room(entity, maxFacts)
        /\ Apply("set_identifier", <<entity, name>>, set_identifier(World, entity, name))

Identifier(whom) ==
    \E entity \in whom :
        Apply("identifier", <<entity>>, identifier(World, entity))

SetGlobalAttributeValue(whom, keys, values, maxFacts) ==
    \E entity \in whom, attr \in keys, value \in values :
        /\ Room(entity, maxFacts)
        /\ Apply("set_global_attribute_value", <<entity, attr, value>>,
                 set_global_attribute_value(World, entity, attr, value))

ClearGlobalAttributeValue(whom, keys) ==
    \E entity \in whom, attr \in keys :
        Apply("clear_global_attribute_value", <<entity, attr>>,
              clear_global_attribute_value(World, entity, attr))

GlobalAttributeValue(whom, keys) ==
    \E entity \in whom, attr \in keys :
        Apply("global_attribute_value", <<entity, attr>>,
              global_attribute_value(World, entity, attr))

GlobalAttributes(whom) ==
    \E entity \in whom :
        Apply("global_attributes", <<entity>>, global_attributes(World, entity))

SetGlobalTag(whom, keys, maxFacts) ==
    \E entity \in whom, tag \in keys :
        /\ Room(entity, maxFacts)
        /\ Apply("set_global_tag", <<entity, tag>>, set_global_tag(World, entity, tag))

ClearGlobalTag(whom, keys) ==
    \E entity \in whom, tag \in keys :
        Apply("clear_global_tag", <<entity, tag>>, clear_global_tag(World, entity, tag))

GlobalTags(whom) ==
    \E entity \in whom :
        Apply("global_tags", <<entity>>, global_tags(World, entity))

ContainsGlobalTag(whom, keys) ==
    \E entity \in whom, tag \in keys :
        Apply("contains_global_tag", <<entity, tag>>,
              contains_global_tag(World, entity, tag))

SetAgentAttributeValue(observers, whom, keys, values, maxFacts) ==
    \E agent \in observers, entity \in whom, attr \in keys, value \in values :
        /\ Room(entity, maxFacts)
        /\ Apply("set_agent_attribute_value", <<agent, entity, attr, value>>,
                 set_agent_attribute_value(World, agent, entity, attr, value))

ClearAgentAttributeValue(observers, whom, keys) ==
    \E agent \in observers, entity \in whom, attr \in keys :
        Apply("clear_agent_attribute_value", <<agent, entity, attr>>,
              clear_agent_attribute_value(World, agent, entity, attr))

AgentAttributeValue(observers, whom, keys) ==
    \E agent \in observers, entity \in whom, attr \in keys :
        Apply("agent_attribute_value", <<agent, entity, attr>>,
              agent_attribute_value(World, agent, entity, attr))

AgentAttributes(observers, whom) ==
    \E agent \in observers, entity \in whom :
        Apply("agent_attributes", <<agent, entity>>,
              agent_attributes(World, agent, entity))

SetAgentTag(observers, whom, keys, maxFacts) ==
    \E agent \in observers, entity \in whom, tag \in keys :
        /\ Room(entity, maxFacts)
        /\ Apply("set_agent_tag", <<agent, entity, tag>>,
                 set_agent_tag(World, agent, entity, tag))

ClearAgentTag(observers, whom, keys) ==
    \E agent \in observers, entity \in whom, tag \in keys :
        Apply("clear_agent_tag", <<agent, entity, tag>>,
              clear_agent_tag(World, agent, entity, tag))

AgentTags(observers, whom) ==
    \E agent \in observers, entity \in whom :
        Apply("agent_tags", <<agent, entity>>, agent_tags(World, agent, entity))

HasAgentTag(observers, whom, keys) ==
    \E agent \in observers, entity \in whom, tag \in keys :
        Apply("has_agent_tag", <<agent, entity, tag>>,
              has_agent_tag(World, agent, entity, tag))

\* The entities a caller can name: those allocated so far and one that never
\* was (the calls only look their arguments up, so one stands for all).
Named == {e \in Entity : e <= entities.next_entity_id}

\* The entity allocated last, if any.
Newest == {e \in Entity : e + 1 = entities.next_entity_id}

\* The spatial graph alone, every call meeting its precondition, every object
\* an area.
NextLayout ==
    \/ CreateSpace(MaxSpaces)
    \/ CreateObject(layout.spaces, MaxAreas, 0)
    \/ CreatePortal(layout.spaces, MaxAreas)

SpecLayout == Init /\ [][NextLayout]_vars

\* The spatial graph, the agent registry and despawn, called with any named
\* entity, valid or not.
NextWorld ==
    \/ CreateSpace(WorldSpaces)
    \/ CreateObject(Named, WorldAreas, WorldNested)
    \/ CreatePortal(layout.spaces \cup Newest, WorldAreas)
    \/ CreateAgent(Named, WorldAgents)
    \/ SetAgentLocation(DOMAIN agents.agent_locations \cup Newest, layout.spaces \cup Newest)
    \/ SetAgentPosition(DOMAIN agents.agent_locations \cup Newest, Kinds)
    \/ ClearAgentPosition(DOMAIN agents.agent_locations \cup Newest)
    \/ Despawn(Named, WorldDespawned)

SpecWorld == Init /\ [][NextWorld]_vars

\* The first space, if any.
Oldest == {e \in layout.spaces : \A x \in layout.spaces : e <= x}

\* The entity counter up to its limit: any number of spaces, a few areas,
\* portals and agents at the first space, and despawn of the newest entity.
NextIds ==
    \/ CreateSpace(U32_MAX + 1)
    \/ CreateObject(Oldest, WorldAreas, 0)
    \/ CreatePortal(Oldest, WorldAreas)
    \/ CreateAgent(Areas, WorldAgents)
    \/ Despawn(Newest, WorldDespawned)

SpecIds == Init /\ [][NextIds]_vars

\* The entity store: entities come from create_space and go by despawn, and
\* every accessor is called with any named entity as target and as observer.
NextStore ==
    \/ CreateSpace(StoreEntities)
    \/ Despawn(Named, StoreEntities)
    \/ Contains(Named)
    \/ SetIdentifier(Named, Kinds, StoreFacts)
    \/ Identifier(Named)
    \/ SetGlobalAttributeValue(Named, Kinds, Values, StoreFacts)
    \/ ClearGlobalAttributeValue(Named, Kinds)
    \/ GlobalAttributeValue(Named, Kinds)
    \/ GlobalAttributes(Named)
    \/ SetGlobalTag(Named, Kinds, StoreFacts)
    \/ ClearGlobalTag(Named, Kinds)
    \/ GlobalTags(Named)
    \/ ContainsGlobalTag(Named, Kinds)
    \/ SetAgentAttributeValue(Named, Named, Kinds, Values, StoreFacts)
    \/ ClearAgentAttributeValue(Named, Named, Kinds)
    \/ AgentAttributeValue(Named, Named, Kinds)
    \/ AgentAttributes(Named, Named)
    \/ SetAgentTag(Named, Named, Kinds, StoreFacts)
    \/ ClearAgentTag(Named, Named, Kinds)
    \/ AgentTags(Named, Named)
    \/ HasAgentTag(Named, Named, Kinds)

SpecStore == Init /\ [][NextStore]_vars

\* Objects nested below objects, to a depth of several levels, under spaces
\* and portal objects, with despawn of any entity.
NextNested ==
    \/ CreateSpace(WorldSpaces)
    \/ CreateObject(layout.spaces \cup DOMAIN layout.object_parents \cup Newest,
                    WorldAreas, WorldNested + 2)
    \/ CreatePortal(layout.spaces, WorldAreas)
    \/ Despawn(Named, WorldDespawned)

SpecNested == Init /\ [][NextNested]_vars

\* Several areas in one space beside portals, nested objects and despawned
\* entities: two spaces, up to two portals between them or from a space to
\* itself.
NextLocal ==
    \/ CreateSpace(WorldSpaces)
    \/ CreateObject(layout.spaces \cup DOMAIN layout.object_parents,
                    MaxAreas, WorldNested)
    \/ CreatePortal(layout.spaces, MaxAreas)
    \/ Despawn(Oldest \cup Newest, WorldDespawned)

SpecLocal == Init /\ [][NextLocal]_vars

\* The entity a caller can name that was never allocated.
Unallocated == Named \ (0..(entities.next_entity_id - 1))

\* The agent registry: two agents in one space, their locations set to the
\* space, to the newest entity and to an entity never allocated, their
\* positions set and cleared, the newest entity despawned.
NextAgents ==
    \/ CreateSpace(WorldAgents)
    \/ CreateObject(layout.spaces, WorldAreas, 0)
    \/ CreateAgent(Areas, WorldAgents + 1)
    \/ SetAgentLocation(DOMAIN agents.agent_locations \cup Newest,
                        Oldest \cup Newest \cup Unallocated)
    \/ SetAgentPosition(DOMAIN agents.agent_locations \cup Newest, Kinds)
    \/ ClearAgentPosition(DOMAIN agents.agent_locations \cup Newest)
    \/ Despawn(Newest, WorldDespawned)

SpecAgents == Init /\ [][NextAgents]_vars

\* The entities that have a meta record.
Present == DOMAIN entities.meta

\* The storing and clearing accessors alone, on present targets and for
\* present observers, with room for two observers' entries side by side.
NextScopes ==
    \/ CreateSpace(StoreEntities)
    \/ SetGlobalAttributeValue(Present, Kinds, Kinds, StoreFacts + 2)
    \/ ClearGlobalAttributeValue(Present, Kinds)
    \/ SetGlobalTag(Present, Kinds, StoreFacts + 2)
    \/ ClearGlobalTag(Present, Kinds)
    \/ SetAgentAttributeValue(Present, Present, Kinds, Kinds, StoreFacts + 2)
    \/ ClearAgentAttributeValue(Present, Present, Kinds)
    \/ SetAgentTag(Present, Present, Kinds, StoreFacts + 2)
    \/ ClearAgentTag(Present, Present, Kinds)

SpecScopes == Init /\ [][NextScopes]_vars

(***************************************************************************)
(* The spatial graph read off the state, for the claims.                   *)
(***************************************************************************)
Spaces == layout.spaces
ParentOf(x) == layout.object_parents[x]
TargetOf(x) == layout.portal_objects[x].target_object
PortalObjects == DOMAIN layout.portal_objects

\* One step of an area-path: to the paired portal object, or to another area
\* of the same space.
AreaStep(x, y) ==
    /\ x # y
    /\ \/ x \in PortalObjects /\ TargetOf(x) = y
       \/ ParentOf(x) = ParentOf(y)

\* The simple area-paths of n + 1 areas: no area twice, every step an AreaStep.
RECURSIVE SimplePathsOfLength(_)
SimplePathsOfLength(n) ==
    IF n = 0 THEN {<<x>> : x \in Areas}
    ELSE {Append(p, y) : <<p, y>> \in
            {q \in SimplePathsOfLength(n - 1) \X Areas :
                /\ \A i \in 1..Len(q[1]) : q[1][i] # q[2]
                /\ AreaStep(Last(q[1]), q[2])}}

\* The simple area-paths of at least two areas.
SimplePaths == UNION {SimplePathsOfLength(n) : n \in 1..(Cardinality(Areas) - 1)}

SpacesOn(p) == {ParentOf(p[i]) : i \in 1..Len(p)}
PathsBetween(A, B) ==
    {p \in SimplePaths : ParentOf(p[1]) = A /\ ParentOf(Last(p)) = B}

HasDistance(A, B) == Pair(A, B) \in DOMAIN layout.space_distances
Distance(A, B) == layout.space_distances[Pair(A, B)]
Nearby(A) == Range(spaces_by_distance(World, A))

\* A portal whose create_portal call has returned links A and B.
PortalBetween(A, B) ==
    \E x \in PortalObjects :
        /\ TargetOf(x) \in PortalObjects
        /\ ParentOf(x) = A
        /\ ParentOf(TargetOf(x)) = B

\* The spaces a chain of portals leads to from the spaces of S.
RECURSIVE PortalReach(_)
PortalReach(S) ==
    LET more == S \cup {B \in Spaces : \E A \in S : PortalBetween(A, B)} IN
    IF more = S THEN S ELSE PortalReach(more)

(***************************************************************************)
(* C1  Whenever a call has returned, the cached paths and the cached space *)
(* distances are what recomputing them from scratch over the current       *)
(* topology gives: no call, create_portal included, leaves a stale cache.  *)
(***************************************************************************)
C1_CachesFresh ==
    fault = FALSE =>
        /\ layout.paths = recalculate_paths(World).w.layout.paths
        /\ layout.space_distances =
                recalculate_space_distances(World).w.layout.space_distances

\* create_portal has returned, in a world where an entity was despawned, and
\* left a distance between two spaces.
C1_Witness ==
    /\ fault = FALSE
    /\ call.op = "create_portal"
    /\ layout.space_distances # EmptyMap
    /\ Despawned # {}

C3_AnyPortalDistanceTwo ==
    fault = FALSE =>
        \A A \in Spaces, B \in Spaces :
            PortalBetween(A, B) =>
                /\ B \in Nearby(A)
                /\ A \in Nearby(B)
                /\ HasDistance(A, B)
                /\ Distance(A, B) = 2

\* C3 as amended: the same for two distinct spaces A and B.
C3_PortalDistanceTwo ==
    fault = FALSE =>
        \A A \in Spaces, B \in Spaces :
            (A # B /\ PortalBetween(A, B)) =>
                /\ B \in Nearby(A)
                /\ A \in Nearby(B)
                /\ HasDistance(A, B)
                /\ Distance(A, B) = 2

\* A portal links two distinct spaces and a further create_object call has
\* returned since, which gave one of them another area.
C3_Witness ==
    /\ fault = FALSE
    /\ call.op = "create_object"
    /\ \E A \in Spaces, B \in Spaces :
        /\ A # B /\ PortalBetween(A, B)
        /\ ParentOf(call.val) = A
        /\ Distance(A, B) = 2

(***************************************************************************)
(* C4  For all created spaces a and b with no portal between them (and no  *)
(* shared local areas: an area has one space), spaces_by_distance(a) never *)
(* includes b.  As claimed: no portal links a and b directly.              *)
(***************************************************************************)
C4_NoDirectPortalNotNearby ==
    fault = FALSE =>
        \A a \in Spaces, b \in Spaces :
            (a # b /\ ~PortalBetween(a, b) /\ ~PortalBetween(b, a)) =>
                b \notin Nearby(a)

\* C4 as amended: for distinct spaces a and b that no chain of portals
\* connects, spaces_by_distance(a) never includes b.
C4_UnconnectedNotNearby ==
    fault = FALSE =>
        \A a \in Spaces, b \in Spaces :
            (a # b /\ b \notin PortalReach({a})) => b \notin Nearby(a)

\* Space a has a neighbour by distance, and space b, with areas of its own, is
\* connected to neither.
C4_Witness ==
    /\ fault = FALSE
    /\ \E a \in Spaces, b \in Spaces :
        /\ a # b
        /\ b \notin PortalReach({a})
        /\ Nearby(a) # {}
        /\ \E x \in Areas : ParentOf(x) = b

(***************************************************************************)
(* C5  The distance cache holds no self-distance: no entry is keyed by a   *)
(* pair (S, S), and spaces_by_distance(S) never contains S.                *)
(***************************************************************************)
C5_NoSelfDistance ==
    fault = FALSE =>
        \A S \in Spaces :
            /\ Pair(S, S) \notin DOMAIN layout.space_distances
            /\ S \notin Nearby(S)

(***************************************************************************)
(* The last call, for the claims.                                          *)
(***************************************************************************)
Returned(op) == fault = FALSE /\ call.op = op
Unchanged == World = before
HadMeta(e) == e \in DOMAIN before.entities.meta

GlobalOps ==
    {"set_global_attribute_value", "clear_global_attribute_value",
     "global_attribute_value", "global_attributes",
     "set_global_tag", "clear_global_tag", "global_tags", "contains_global_tag"}
AgentOps ==
    {"set_agent_attribute_value", "clear_agent_attribute_value",
     "agent_attribute_value", "agent_attributes",
     "set_agent_tag", "clear_agent_tag", "agent_tags", "has_agent_tag"}
IdentifierOps == {"set_identifier", "identifier"}
CreateOps == {"create_space", "create_object", "create_portal", "create_agent"}

\* The target entity of the last call, an accessor of the entity store.
Target == IF call.op \in AgentOps THEN call.args[2] ELSE call.args[1]

(***************************************************************************)
(* C6  After despawn(e) has returned, contains(e) is false and no          *)
(* remaining entity has e as an observer key of its agent-scoped           *)
(* attributes: agent_attribute_value(e, x, k) is None and                  *)
(* agent_attributes(e, x) is empty for every remaining x and every key k.  *)
(***************************************************************************)
C6_DespawnScrubsObserver ==
    call.op = "despawn" =>
        LET e == call.args[1] IN
        /\ fault = FALSE
        /\ ~contains(World, e)
        /\ \A x \in DOMAIN entities.meta :
            /\ e \notin DOMAIN entities.meta[x].agent_attributes
            /\ agent_attributes(World, e, x).val = OkR(EmptyMap)
            /\ \A k \in Values : agent_attribute_value(World, e, x, k).val = OkR(None)

\* despawn(e) removed the record of e and its observer key from an entity
\* that stays.
C6_Witness ==
    /\ Returned("despawn")
    /\ HadMeta(call.args[1])
    /\ \E x \in DOMAIN entities.meta :
            call.args[1] \in DOMAIN before.entities.meta[x].agent_attributes

(***************************************************************************)
(* C7  despawn is idempotent: despawn(e) on an entity that has no meta     *)
(* record (a second despawn of e, or an entity never spawned) raises no    *)
(* fault and leaves the whole world exactly as it was.  As claimed.        *)
(***************************************************************************)
C7_DespawnAbsentChangesNothing ==
    (call.op = "despawn" /\ ~HadMeta(call.args[1])) =>
        fault = FALSE /\ Unchanged

\* C7 as amended: despawn(e) on an entity that has no meta record raises no
\* fault and changes nothing but the agent-scoped attribute namespaces keyed by
\* e, which it removes from the remaining entities; when no entity holds such
\* a namespace, as directly after a despawn(e), the world stays as it was.
C7_DespawnAbsentOnlyScrubs ==
    (call.op = "despawn" /\ ~HadMeta(call.args[1])) =>
        LET e == call.args[1]
            old == before.entities.meta
        IN /\ fault = FALSE
           /\ layout = before.layout
           /\ agents = before.agents
           /\ entities.next_entity_id = before.entities.next_entity_id
           /\ DOMAIN entities.meta = DOMAIN old
           /\ \A x \in DOMAIN old :
                entities.meta[x] = [old[x] EXCEPT !.agent_attributes = MapRemove(@, e)]
           /\ (\A x \in DOMAIN old : e \notin DOMAIN old[x].agent_attributes)
                => Unchanged
           /\ despawn(World, e).w = World

\* despawn(e) was called on an entity that was spawned and despawned before,
\* while another entity holds stored entries.
C7_Witness ==
    /\ Returned("despawn")
    /\ ~HadMeta(call.args[1])
    /\ call.args[1] < entities.next_entity_id
    /\ Unchanged
    /\ Facts # {}

(***************************************************************************)
(* C8  Every newly allocated entity is strictly greater than every entity  *)
(* allocated before it, so no identifier is handed out twice, also after   *)
(* its holder was despawned; when the counter cannot be incremented the    *)
(* allocation faults instead of wrapping around.                           *)
(***************************************************************************)
C8_EntitiesNeverReused ==
    LET was == before.entities.next_entity_id
        now == entities.next_entity_id
        fresh == {e \in Entity : was <= e /\ e < now}
        roles == layout.spaces \cup DOMAIN layout.object_parents \cup layout.portals
                 \cup DOMAIN agents.agent_locations \cup DOMAIN layout.kinds
    IN /\ was <= now
       /\ now <= U32_MAX
       /\ DOMAIN entities.meta \cup roles \subseteq 0..(now - 1)
       /\ DOMAIN entities.meta \ DOMAIN before.entities.meta = fresh
       /\ (call.op \in CreateOps /\ fault = FALSE) => call.val \in fresh
       /\ (call.op \in CreateOps /\ was = U32_MAX) =>
            fault = TRUE /\ entities = before.entities

\* An allocation faulted at the limit of the counter, after an entity had
\* been despawned.
C8_Witness ==
    /\ fault = TRUE
    /\ call.op \in CreateOps
    /\ before.entities.next_entity_id = U32_MAX
    /\ Despawned # {}

(***************************************************************************)
(* C9  Every global and agent-scoped attribute or tag accessor called with *)
(* a target that has no meta record returns InvalidEntity, never faults    *)
(* and leaves the world unchanged; it does not re-create a meta record.    *)
(***************************************************************************)
C9_AccessorsInvalidEntity ==
    (call.op \in GlobalOps \cup AgentOps /\ ~HadMeta(Target)) =>
        /\ fault = FALSE
        /\ call.val = Err
        /\ Unchanged
        /\ ~contains(World, Target)

\* A storing accessor was called on a despawned target.
C9_Witness ==
    /\ call.op \in {"set_agent_tag", "set_global_attribute_value"}
    /\ ~HadMeta(Target)
    /\ Target < entities.next_entity_id
    /\ call.val = Err

(***************************************************************************)
(* C10  Every entity-targeted operation of the entity store, set_identifier*)
(* and identifier included, fails with InvalidEntity when its target has   *)
(* no meta record: it neither faults nor returns an ordinary result.       *)
(***************************************************************************)
C10_AllTargetedOpsInvalidEntity ==
    (call.op \in GlobalOps \cup AgentOps \cup IdentifierOps /\ ~HadMeta(Target)) =>
        /\ fault = FALSE
        /\ call.val = Err

(***************************************************************************)
(* What the reading accessors answer: the global view of an entity and the *)
(* view of one observer on it.                                             *)
(***************************************************************************)
GlobalView(w, x) ==
    <<global_attributes(w, x).val, global_tags(w, x).val,
      [k \in Values |-> global_attribute_value(w, x, k).val],
      [t \in Values |-> contains_global_tag(w, x, t).val]>>

AgentView(w, o, x) ==
    <<agent_attributes(w, o, x).val, agent_tags(w, o, x).val,
      [k \in Values |-> agent_attribute_value(w, o, x, k).val],
      [t \in Values |-> has_agent_tag(w, o, x, t).val]>>

GlobalWrites ==
    {"set_global_attribute_value", "clear_global_attribute_value",
     "set_global_tag", "clear_global_tag"}
AgentWrites ==
    {"set_agent_attribute_value", "clear_agent_attribute_value",
     "set_agent_tag", "clear_agent_tag"}

(***************************************************************************)
(* C11  The global store and the agent-scoped stores of an entity do not   *)
(* leak into each other, nor one observer's namespace into another's: a    *)
(* set or clear of a global attribute or tag changes no agent-scoped       *)
(* result of any observer; a set or clear of an agent-scoped attribute or  *)
(* tag for observer a on e changes no global result and no agent-scoped    *)
(* result of another observer or on another entity.                        *)
(***************************************************************************)
C11_StoresDoNotLeak ==
    /\ call.op \in GlobalWrites =>
        /\ fault = FALSE
        /\ \A o \in Named, x \in Named : AgentView(World, o, x) = AgentView(before, o, x)
        /\ \A x \in Named \ {call.args[1]} : GlobalView(World, x) = GlobalView(before, x)
    /\ call.op \in AgentWrites =>
        /\ fault = FALSE
        /\ \A x \in Named : GlobalView(World, x) = GlobalView(before, x)
        /\ \A o \in Named, x \in Named :
            <<o, x>> # <<call.args[1], call.args[2]>> =>
                AgentView(World, o, x) = AgentView(before, o, x)

\* Observer a stored a tag on e while e has no such global tag and another
\* observer, who holds attributes on e, has no such tag.
C11_Witness ==
    /\ call.op = "set_agent_tag"
    /\ call.val = OkR(Unit)
    /\ LET a == call.args[1]
           e == call.args[2]
           t == call.args[3]
       IN /\ has_agent_tag(World, a, e, t).val = OkR(TRUE)
          /\ has_agent_tag(before, a, e, t).val = OkR(FALSE)
          /\ contains_global_tag(World, e, t).val = OkR(FALSE)
          /\ \E o \in Present \ {a} :
                /\ agent_attributes(World, o, e).val # OkR(EmptyMap)
                /\ has_agent_tag(World, o, e, t).val = OkR(FALSE)

AgentAttributeReads == {"clear_agent_attribute_value", "agent_attribute_value", "agent_attributes"}
AgentTagReads == {"clear_agent_tag", "agent_tags", "has_agent_tag"}

\* Observer o had no entries of the scope of the last call on entity x.
NoPriorEntries(o, x) ==
    LET m == before.entities.meta[x] IN
    IF call.op \in AgentAttributeReads
    THEN o \in DOMAIN m.agent_attributes => m.agent_attributes[o] = EmptyMap
    ELSE o \in DOMAIN m.agent_tags => m.agent_tags[o] = {}

\* What each call answers on an empty namespace.
EmptyAnswer ==
    [clear_agent_attribute_value |-> OkR(None),
     agent_attribute_value |-> OkR(None),
     agent_attributes |-> OkR(EmptyMap),
     clear_agent_tag |-> OkR(Unit),
     agent_tags |-> OkR({}),
     has_agent_tag |-> OkR(FALSE)]

(***************************************************************************)
(* C12  For an existing target and an observer without prior agent-scoped  *)
(* entries on it, whether or not the observer exists, clearing succeeds    *)
(* with nothing removed, reading answers absent or false and iterating     *)
(* yields nothing; none reports an error, faults or changes the world.     *)
(***************************************************************************)
C12_AbsentObserverIsEmpty ==
    (/\ call.op \in AgentAttributeReads \cup AgentTagReads
     /\ HadMeta(call.args[2])
     /\ NoPriorEntries(call.args[1], call.args[2])) =>
        /\ fault = FALSE
        /\ call.val = EmptyAnswer[call.op]
        /\ Unchanged

\* A clear for an observer that was never spawned and has no namespace, on a
\* target on which another observer holds entries.
C12_Witness ==
    /\ call.op \in {"clear_agent_attribute_value", "clear_agent_tag"}
    /\ HadMeta(call.args[2])
    /\ call.args[1] = entities.next_entity_id
    /\ LET m == before.entities.meta[call.args[2]] IN
        /\ call.args[1] \notin DOMAIN m.agent_attributes \cup DOMAIN m.agent_tags
        /\ \E o \in DOMAIN m.agent_attributes : m.agent_attributes[o] # EmptyMap
    /\ Returned(call.op)

\* The last call broke the structural precondition of its operation, judged
\* on the world it was made on.
BrokePrecondition ==
    \/ /\ call.op = "create_object"
       /\ ~(is_space(before, call.args[2]) \/ is_object(before, call.args[2]))
    \/ /\ call.op = "create_portal"
       /\ ~(is_space(before, call.args[2]) /\ is_space(before, call.args[3]))
    \/ /\ call.op = "create_agent"
       /\ ~is_area(before, call.args[1])
    \/ /\ call.op \in {"set_agent_location", "set_agent_position", "clear_agent_position"}
       /\ ~is_agent(before, call.args[1])

(***************************************************************************)
(* C13  A call that breaks a structural precondition (create_object with a *)
(* parent that is neither space nor object, create_portal with a non-space,*)
(* create_agent at a non-area, set_agent_location, set_agent_position or   *)
(* clear_agent_position on a non-agent) faults, and at the fault the world *)
(* (entity counter, meta records, topology, caches, agent registry) is the *)
(* world before the call; no such call succeeds.                           *)
(***************************************************************************)
C13_PreconditionFaultsFirst ==
    BrokePrecondition => fault = TRUE /\ Unchanged

\* create_portal faulted on its second argument, a non-space, in a world that
\* holds cached distances.
C13_Witness ==
    /\ fault = TRUE
    /\ call.op = "create_portal"
    /\ is_space(before, call.args[2])
    /\ ~is_space(before, call.args[3])
    /\ before.layout.space_distances # EmptyMap
    /\ entities.next_entity_id = before.entities.next_entity_id

Objects == DOMAIN layout.object_parents

\* The entities n parent steps above x, as long as the steps stay on objects.
RECURSIVE AncestorAt(_, _)
AncestorAt(x, n) ==
    IF n = 0 THEN x
    ELSE LET below == AncestorAt(x, n - 1) IN
         IF below \in Objects THEN ParentOf(below) ELSE below

\* The proper ancestors of x and the end of its parent chain.
Ancestors(x) == {AncestorAt(x, n) : n \in 1..Cardinality(Objects)}
ChainEnd(x) == AncestorAt(x, Cardinality(Objects))
Depth(x) == Cardinality(Ancestors(x))

(***************************************************************************)
(* C14  For every object x, at any nesting depth, the parent chain of x is *)
(* finite and acyclic and ends at a space; object_space(x) is that space,  *)
(* never None, and is the space the chain was created under: it is the     *)
(* space of the parent given to create_object and never changes afterwards,*)
(* also after the space or an ancestor has been despawned.                 *)
(***************************************************************************)
C14_ObjectSpaceIsChainRoot ==
    /\ \A x \in Objects :
        /\ x \notin Ancestors(x)
        /\ ChainEnd(x) \in Spaces
        /\ ChainEnd(x) \notin Objects
        /\ object_space(World, x) = Some(ChainEnd(x))
    /\ \A x \in DOMAIN before.layout.object_parents :
        /\ x \in Objects
        /\ ParentOf(x) = before.layout.object_parents[x]
        /\ object_space(World, x) = object_space(before, x)
    /\ Returned("create_object") =>
        object_space(World, call.val) = object_space(before, call.args[2])

\* An object three levels below its space, the space or an ancestor of the
\* object being despawned.
C14_Witness ==
    \E x \in Objects :
        /\ Depth(x) >= 3
        /\ \E y \in Ancestors(x) : y \in Despawned
        /\ object_space(World, x) = Some(ChainEnd(x))

(***************************************************************************)
(* C15  create_portal(kind, (sa, sb)) on two spaces allocates exactly      *)
(* three entities and returns the portal, which is_portal and is neither   *)
(* an object nor a portal object; the other two are portal objects oa, an  *)
(* area of sa, and ob, an area of sb, each the portal target of the other  *)
(* and both with the returned portal as object_portal.  In every reachable *)
(* state object_portal_target is an involution on the portal objects.      *)
(***************************************************************************)
C15_PortalShape ==
    /\ Returned("create_portal") =>
        LET portal == call.val
            sa == call.args[2]
            sb == call.args[3]
            new == DOMAIN entities.meta \ DOMAIN before.entities.meta
            sides == new \ {portal}
        IN /\ Cardinality(new) = 3
           /\ entities.next_entity_id = before.entities.next_entity_id + 3
           /\ portal \in new
           /\ is_portal(World, portal)
           /\ ~is_object(World, portal)
           /\ ~is_portal_object(World, portal)
           /\ layout.portals = before.layout.portals \cup {portal}
           /\ PortalObjects = DOMAIN before.layout.portal_objects \cup sides
           /\ \E oa \in sides, ob \in sides :
                /\ oa # ob
                /\ is_area(World, oa) /\ object_parent(World, oa) = Some(sa)
                /\ is_area(World, ob) /\ object_parent(World, ob) = Some(sb)
                /\ object_portal_target(World, oa) = Some(ob)
                /\ object_portal_target(World, ob) = Some(oa)
                /\ object_portal(World, oa) = Some(portal)
                /\ object_portal(World, ob) = Some(portal)
    /\ \A x \in PortalObjects :
        LET y == object_portal_target(World, x) IN
        /\ y # None
        /\ y[1] # x
        /\ is_portal_object(World, y[1])
        /\ object_portal_target(World, y[1]) = Some(x)
        /\ object_portal(World, y[1]) = object_portal(World, x)

\* A second portal was created, between two different spaces.
C15_Witness ==
    /\ Returned("create_portal")
    /\ call.args[2] # call.args[3]
    /\ Cardinality(PortalObjects) >= 4
    /\ Cardinality(layout.portals) >= 2

(***************************************************************************)
(* C16  spaces_by_distance(source) returns exactly the spaces that have a  *)
(* cached distance to source, each once, in non-decreasing order of that   *)
(* distance; a source without cached distances, an entity that is not a    *)
(* space included, yields the empty sequence.                              *)
(***************************************************************************)
C16_SpacesByDistance ==
    \A source \in Named :
        LET result == spaces_by_distance(World, source) IN
        /\ Range(result) = {s \in Spaces : HasDistance(source, s)}
        /\ \A i \in 1..Len(result), j \in 1..Len(result) :
            i < j => /\ result[i] # result[j]
                     /\ Distance(source, result[i]) <= Distance(source, result[j])
        /\ source \notin Spaces => result = <<>>
        /\ (\A s \in Spaces : ~HasDistance(source, s)) => result = <<>>

\* A source with two spaces at different distances, the nearer one being the
\* later one in the iteration over the spaces, beside an area, which as a
\* source has no distances.
C16_Witness ==
    /\ \E source \in Spaces :
        LET result == spaces_by_distance(World, source) IN
        /\ Len(result) >= 2
        /\ result[1] > result[2]
        /\ Distance(source, result[1]) < Distance(source, result[2])
    /\ \E x \in Areas : spaces_by_distance(World, x) = <<>>

\* The cached paths from x to y, as sequences of areas.
RECURSIVE path_areas(_)
path_areas(value) ==
    IF value = <<>> THEN <<>> ELSE <<value[1].ext>> \o path_areas(value[2])

CachedPaths(x, y) ==
    IF <<x, y>> \in DOMAIN layout.paths
    THEN [i \in 1..Len(layout.paths[<<x, y>>]) |-> path_areas(layout.paths[<<x, y>>][i])]
    ELSE <<>>

(***************************************************************************)
(* C17  Any two distinct areas of the same space have a recorded path      *)
(* between them in both directions, the local edge; and while no portal    *)
(* has been created the distance cache is empty, whatever spaces and       *)
(* objects exist: one space with two areas gets paths and no distance.     *)
(***************************************************************************)
C17_LocalPathsNoDistance ==
    /\ \A x \in Areas, y \in Areas :
        (x # y /\ ParentOf(x) = ParentOf(y)) =>
            /\ <<x, y>> \in DOMAIN layout.paths
            /\ <<x, y>> \in Range(CachedPaths(x, y))
    /\ layout.portals = {} => layout.space_distances = EmptyMap

\* Two spaces, one with two areas and an object nested in one of them, and no
\* portal.
C17_Witness ==
    /\ layout.portals = {}
    /\ Cardinality(Spaces) = 2
    /\ Nested # {}
    /\ \E x \in Areas, y \in Areas :
        /\ x # y
        /\ ParentOf(x) = ParentOf(y)
        /\ CachedPaths(x, y) = <<<<x, y>>>>
        /\ CachedPaths(y, x) = <<<<y, x>>>>
    /\ layout.space_distances = EmptyMap

\* The simple area-paths from x to y.
SimplePathsFromTo(x, y) == {p \in SimplePaths : p[1] = x /\ Last(p) = y}

\* p repeats no area and every step of it is an AreaStep between areas.
IsSimpleAreaPath(p) ==
    /\ Len(p) >= 2
    /\ \A i \in 1..Len(p) : p[i] \in Areas
    /\ \A i \in 1..Len(p), j \in 1..Len(p) : i # j => p[i] # p[j]
    /\ \A i \in 1..(Len(p) - 1) : AreaStep(p[i], p[i + 1])

(***************************************************************************)
(* C18  For every ordered pair of areas (x, y) the cached path list holds  *)
(* every simple area-path from x to y of at least two areas whose steps go *)
(* to the paired portal object or to another area of the same space, and   *)
(* nothing else: each cached path starts at x, ends at y, repeats no area  *)
(* and uses only such steps; a pair without such a path has no entry.      *)
(***************************************************************************)
C18_CachedPathsAreSimplePaths ==
    /\ DOMAIN layout.paths \subseteq Areas \X Areas
    /\ \A x \in Areas, y \in Areas :
        LET cached == Range(CachedPaths(x, y)) IN
        /\ cached = SimplePathsFromTo(x, y)
        /\ \A p \in cached : p[1] = x /\ Last(p) = y /\ IsSimpleAreaPath(p)
        /\ <<x, y>> \in DOMAIN layout.paths <=> SimplePathsFromTo(x, y) # {}

\* Two areas of one space joined by the local edge and by a path of four
\* areas through two portals to another space and back.
C18_Witness ==
    /\ \E x \in Areas, y \in Areas :
        /\ ParentOf(x) = ParentOf(y)
        /\ <<x, y>> \in Range(CachedPaths(x, y))
        /\ \E p \in Range(CachedPaths(x, y)) : Len(p) = 4
    /\ Cardinality(Spaces) >= 2

\* An allocation of the last call found the entity counter at its limit.
CounterExhausted ==
    call.op \in CreateOps /\ entities.next_entity_id = U32_MAX

(***************************************************************************)
(* C19  Recomputation runs to completion without faulting: for every       *)
(* reachable topology (a portal from a space to itself, several portals    *)
(* between the same spaces, portal cycles, nested objects, despawned       *)
(* entities that stay in the topology) the worklist of the path            *)
(* enumeration empties, no path growing beyond the number of areas, and    *)
(* the lookups of the owning space in the enumeration and in the distance  *)
(* reduction never meet a missing value; a fault comes from a broken       *)
(* precondition or from the entity counter only.                           *)
(***************************************************************************)
C19_RecalculateCompletes ==
    /\ LET found == find_paths(World) IN
        /\ found.ok
        /\ \A i \in 1..Len(found.paths) :
            /\ Len(found.paths[i]) <= Cardinality(Areas)
            /\ \A j \in 1..Len(found.paths[i]) :
                object_space(World, found.paths[i][j]) # None
    /\ recalculate_paths(World).ok
    /\ recalculate_space_distances(World).ok
    /\ recalculate(World).ok
    /\ fault = TRUE => BrokePrecondition \/ CounterExhausted

\* Two portals between the same two spaces, a cycle of four areas, with a
\* nested object, the first space being despawned, after a call that
\* recomputed.
C19_Witness ==
    /\ Returned("create_object") \/ Returned("create_portal")
    /\ Cardinality(layout.portals) = 2
    /\ \E A \in Spaces, B \in Spaces :
        /\ A # B
        /\ A \in Despawned
        /\ \A x \in PortalObjects : ParentOf(x) \in {A, B} /\ ParentOf(TargetOf(x)) \in {A, B} \ {ParentOf(x)}
    /\ Nested # {}

(***************************************************************************)
(* C20  After despawn(e) no belief namespace keyed by observer e survives  *)
(* on a remaining entity for tags either: for every remaining entity x and *)
(* every tag t, has_agent_tag(e, x, t) is false and agent_tags(e, x) is    *)
(* empty, also when set_agent_tag(e, x, t) was called before the despawn.  *)
(***************************************************************************)
C20_DespawnScrubsObserverTags ==
    call.op = "despawn" =>
        LET e == call.args[1] IN
        \A x \in DOMAIN entities.meta :
            /\ agent_tags(World, e, x).val = OkR({})
            /\ \A t \in Values : has_agent_tag(World, e, x, t).val = OkR(FALSE)

\* What the topology and registry queries answer about entity x.
RoleView(w, x) ==
    <<is_space(w, x), is_object(w, x), is_area(w, x), is_portal(w, x),
      is_portal_object(w, x), object_parent(w, x), object_portal_target(w, x),
      layout_kind(w, x), is_agent(w, x), agent_location(w, x), agent_position(w, x)>>

(***************************************************************************)
(* C21  despawn(e) changes the entity store only: is_space, is_object,     *)
(* is_area, is_portal, is_portal_object, object_parent,                    *)
(* object_portal_target, layout_kind, is_agent, agent_location and         *)
(* agent_position answer the same for every entity, e included, before and *)
(* after, and the path and distance caches are unchanged; a despawned      *)
(* space, object, portal or agent stays in the topology and the registry   *)
(* while contains(e) is false.                                             *)
(***************************************************************************)
C21_DespawnKeepsTopology ==
    call.op = "despawn" =>
        /\ fault = FALSE
        /\ ~contains(World, call.args[1])
        /\ \A x \in Entity : RoleView(World, x) = RoleView(before, x)
        /\ layout.paths = before.layout.paths
        /\ layout.space_distances = before.layout.space_distances
        /\ layout = before.layout
        /\ agents = before.agents
        /\ entities.next_entity_id = before.entities.next_entity_id

\* An agent located in a world with cached distances was despawned and is
\* still a registered agent.
C21_Witness ==
    /\ Returned("despawn")
    /\ HadMeta(call.args[1])
    /\ ~contains(World, call.args[1])
    /\ is_agent(World, call.args[1])
    /\ agent_location(World, call.args[1]) # None
    /\ layout.space_distances # EmptyMap

(***************************************************************************)
(* C22  set_agent_location(agent, location) on a registered agent          *)
(* overwrites the location unconditionally: it succeeds for any entity     *)
(* value, one that is not an area or does not exist included, and          *)
(* agent_location(agent) then returns that value; nothing else changes     *)
(* (the agent's position, the other agents, topology, caches and entity    *)
(* store).  set_agent_position and clear_agent_position on a registered    *)
(* agent leave every agent_location unchanged.                             *)
(***************************************************************************)
C22_AgentLocationFrame ==
    /\ (call.op = "set_agent_location" /\ is_agent(before, call.args[1])) =>
        /\ fault = FALSE
        /\ agent_location(World, call.args[1]) = Some(call.args[2])
        /\ agents.agent_locations =
                MapInsert(before.agents.agent_locations, call.args[1], call.args[2])
        /\ DOMAIN agents.agent_locations = DOMAIN before.agents.agent_locations
        /\ agents.agent_position = before.agents.agent_position
        /\ layout = before.layout
        /\ entities = before.entities
    /\ (call.op \in {"set_agent_position", "clear_agent_position"}
            /\ is_agent(before, call.args[1])) =>
        /\ fault = FALSE
        /\ agents.agent_locations = before.agents.agent_locations
        /\ \A a \in Entity : agent_location(World, a) = agent_location(before, a)
        /\ \A a \in Entity \ {call.args[1]} :
                agent_position(World, a) = agent_position(before, a)
        /\ agent_position(World, call.args[1]) =
                IF call.op = "set_agent_position" THEN Some(call.args[2]) ELSE None
        /\ layout = before.layout
        /\ entities = before.entities

\* The location of an agent that has a position was set to an entity never
\* allocated, beside another agent located at an area.
C22_Witness ==
    /\ Returned("set_agent_location")
    /\ call.args[2] >= entities.next_entity_id
    /\ agent_position(World, call.args[1]) # None
    /\ \E other \in DOMAIN agents.agent_locations \ {call.args[1]} :
            is_area(World, agents.agent_locations[other])

Agents == DOMAIN agents.agent_locations

(***************************************************************************)
(* C23  The roles handed out by the typed constructors are mutually        *)
(* exclusive and permanent: no entity is at once two of space, object,     *)
(* portal and agent; the parent and the kind of an object never change     *)
(* after its creation; and the sets of spaces, objects, portals, portal    *)
(* objects and agents only grow.                                           *)
(***************************************************************************)
C23_RolesExclusivePermanent ==
    /\ Spaces \cap Objects = {}
    /\ Spaces \cap layout.portals = {}
    /\ Spaces \cap Agents = {}
    /\ Objects \cap layout.portals = {}
    /\ Objects \cap Agents = {}
    /\ layout.portals \cap Agents = {}
    /\ PortalObjects \subseteq Objects
    /\ \A x \in DOMAIN before.layout.object_parents :
        /\ x \in Objects
        /\ object_parent(World, x) = object_parent(before, x)
        /\ layout_kind(World, x) = layout_kind(before, x)
    /\ before.layout.spaces \subseteq Spaces
    /\ before.layout.portals \subseteq layout.portals
    /\ \A x \in DOMAIN before.layout.portal_objects :
        /\ x \in PortalObjects
        /\ layout.portal_objects[x] = before.layout.portal_objects[x]
    /\ DOMAIN before.agents.agent_locations \subseteq Agents

\* An agent was created in a world with two spaces and a portal, from which
\* an entity holding a role had been despawned.
C23_Witness ==
    /\ Returned("create_agent")
    /\ Cardinality(Spaces) = 2
    /\ layout.portals # {}
    /\ Despawned \cap (Spaces \cup Objects \cup layout.portals) # {}

\* How often path p stands in the cached list of its ends.
Recorded(p) ==
    LET cached == CachedPaths(p[1], Last(p)) IN
    Cardinality({i \in 1..Len(cached) : cached[i] = p})

\* The steps of p from a portal object to its paired object in the same
\* space: the successor that find_paths meets both as portal target and as
\* local area.
TwiceMetSteps(p) ==
    {i \in 1..(Len(p) - 1) :
        /\ p[i] \in PortalObjects
        /\ TargetOf(p[i]) = p[i + 1]
        /\ ParentOf(p[i]) = ParentOf(p[i + 1])}

(***************************************************************************)
(* C24  The cached path list of each ordered pair of areas contains no two *)
(* equal paths: every simple area-path is recorded exactly once, also when *)
(* a portal links a space to itself, so that the paired portal object is   *)
(* a local area of the same space as well.  As claimed.                    *)
(***************************************************************************)
C24_NoDuplicatePaths ==
    \A p \in SimplePaths : Recorded(p) = 1

\* C24 as amended: every simple area-path is recorded at least once, and
\* exactly once unless it steps from a portal object to its paired portal
\* object in the same space (a portal that links a space to itself); each
\* such step doubles the number of times the path is recorded.
C24_PathsOnceUnlessSelfPortal ==
    \A p \in SimplePaths :
        /\ Recorded(p) >= 1
        /\ Recorded(p) = 2 ^ Cardinality(TwiceMetSteps(p))
        /\ TwiceMetSteps(p) = {} => Recorded(p) = 1

\* A portal from a space to itself beside a portal to another space: a path
\* recorded twice and a path of three areas recorded once.
C24_Witness ==
    /\ \E p \in SimplePaths : Recorded(p) = 2
    /\ \E p \in SimplePaths :
        /\ Len(p) >= 3
        /\ Cardinality(SpacesOn(p)) = 2
        /\ Recorded(p) = 1

====
